---- MODULE Spec2Model ----
(***************************************************************************)
(* Model of the wiring registry of src/register.rs: WiringOption,          *)
(* ObjectMap (typed accessor, iteration, indexing) and Register.           *)
(*                                                                         *)
(* Strings are sequences of byte codes, ordered as Rust orders str.        *)
(* Option<T> is a sequence of length at most one: None is <<>>, Some(x) is *)
(* <<x>>.  Vec indices are 0-based as in the source; the element at Rust   *)
(* index i of a Vec v is v[i + 1] here.  A (String, Box<Obj>) pair is the  *)
(* tuple <<name, obj>>.  A boxed object is a record [id, ty]: its identity *)
(* and the TypeId of its concrete type.                                    *)
(***************************************************************************)
EXTENDS Naturals, Integers, Sequences, FiniteSets, TLC

VARIABLES options, call, outcome, ret

vars == <<options, call, outcome, ret>>

\* ---------------------------------------------------------------- bounds
NumNames == 2
NumAltNames == 2
NumTypes == 3
NumObjs == 2

\* ---------------------------------------------------------------- inputs
\* Option names "b", "ab", "a", "aa", ... : insertion order and name order
\* differ, and one name is a proper prefix of another.
OptName(i) ==
  IF i = 1 THEN <<98>>
  ELSE IF i = 2 THEN <<97, 98>>
  ELSE [k \in 1..(i - 2) |-> 97]

OptNames == { OptName(i) : i \in 1..NumNames }

\* Alternative names "x", "y", "z", ...
AltName(i) == <<119 + i>>

AltNames == { AltName(i) : i \in 1..NumAltNames }

\* TypeIds of the concrete types that implement OptionReflect.
Types == 1..NumTypes

\* The boxed objects handed to the register.  They are instances of the
\* first two types, which reflect the same option name: objects 1, 3, ...
\* have type 1 and objects 2, 4, ... have type 2, so two distinct objects
\* may share a type.  The other types have no instance.
Obj(k) == [id |-> k, ty |-> ((k - 1) % 2) + 1]

Objs == { Obj(k) : k \in 1..NumObjs }

None == <<>>

Some(x) == <<x>>

\* What a call record holds for an argument the method does not take: the
\* empty string for a name, an object and a type that do not exist.
NoArg == <<>>

NoObj == [id |-> 0, ty |-> 0]

NoType == 0

\* ---------------------------------------------------------- OptionReflect
\* T::option_name(): types 1 and 2 reflect the first name, types 3 and 4 the
\* second, and so on.
option_name(T) == OptName(((((T + 1) \div 2) - 1) % NumNames) + 1)

\* (&*base).get_type_id()
get_type_id(obj) == obj.ty

\* Mutant of downcast_ref: the cast is not checked.
downcast_ref_unchecked(T, base) == Some(base)

\* QDowncastable::downcast_ref / downcast_mut: the checked cast succeeds
\* exactly on equal type identities and hands back the same object.
downcast_ref(T, base) == IF get_type_id(base) = T THEN Some(base) ELSE None

downcast_mut(T, base) == IF get_type_id(base) = T THEN Some(base) ELSE None

\* ----------------------------------------------------------------- str Ord
Min(a, b) == IF a < b THEN a ELSE b

\* a < b for strings: byte-wise lexicographic, a proper prefix is smaller.
str_lt(a, b) ==
  \E k \in 1..(Min(Len(a), Len(b)) + 1) :
     /\ \A j \in 1..(k - 1) : a[j] = b[j]
     /\ \/ k > Len(a) /\ k <= Len(b)
        \/ k <= Len(a) /\ k <= Len(b) /\ a[k] < b[k]

\* ----------------------------------------------------------- GetObjectError
\* Mutant of type_mismatch: the two type identities are exchanged.
type_mismatch_swapped(Expected, found) ==
  [tag |-> "TypeMismatch", option_name |-> option_name(Expected),
   expected |-> found, found |-> Expected]

\* GetObjectError::type_mismatch::<Expected>(found)
type_mismatch(Expected, found) ==
  [tag |-> "TypeMismatch", option_name |-> option_name(Expected),
   expected |-> Expected, found |-> found]

MissingOption(name) == [tag |-> "MissingOption", option_name |-> name]

Ok(value) == [tag |-> "Ok", value |-> value]

\* ------------------------------------------------------------- WiringOption
Multi(wired, alternatives) ==
  [kind |-> "Multi", wired |-> wired, alternatives |-> alternatives]

Single(obj) == [kind |-> "Single", obj |-> obj]

\* Mutant of has_alternative: the comparison of the names is inverted.
WiringOption_has_alternative_ne(self, alt_name) ==
  IF self.kind = "Multi"
  THEN \E i \in 1..Len(self.alternatives) : self.alternatives[i][1] # alt_name
  ELSE FALSE

WiringOption_has_alternative(self, alt_name) ==
  IF self.kind = "Multi"
  THEN \E i \in 1..Len(self.alternatives) : self.alternatives[i][1] = alt_name
  ELSE FALSE

\* Mutant of position: the index is counted from one.
position_one_based(alternatives, alt_name) ==
  LET hits == { i \in 1..Len(alternatives) : alternatives[i][1] = alt_name }
  IN  IF hits = {} THEN None
      ELSE Some(CHOOSE i \in hits : \A j \in hits : i <= j)

\* alternatives.iter().position(|e| &*e.0 == alt_name): the first 0-based
\* index whose name matches.
position(alternatives, alt_name) ==
  LET hits == { i \in 1..Len(alternatives) : alternatives[i][1] = alt_name }
  IN  IF hits = {} THEN None
      ELSE Some((CHOOSE i \in hits : \A j \in hits : i <= j) - 1)

\* Mutant of add_alternative: the new alternative is put in front.
WiringOption_add_alternative_front(self, alt_name, obj) ==
  IF WiringOption_has_alternative(self, alt_name)
  THEN [panicked |-> TRUE, self |-> self]
  ELSE IF self.kind = "Multi"
       THEN [panicked |-> FALSE,
             self |-> Multi(self.wired,
                            <<<<alt_name, obj>>>> \o self.alternatives)]
       ELSE [panicked |-> TRUE, self |-> self]

\* Mutant of add_alternative: the option is wired to the alternative it
\* has just taken.
WiringOption_add_alternative_rewire(self, alt_name, obj) ==
  IF WiringOption_has_alternative(self, alt_name)
  THEN [panicked |-> TRUE, self |-> self]
  ELSE IF self.kind = "Multi"
       THEN [panicked |-> FALSE,
             self |-> Multi(Some(Len(self.alternatives)),
                            Append(self.alternatives, <<alt_name, obj>>))]
       ELSE [panicked |-> TRUE, self |-> self]

\* The result of a &mut self method: whether it panicked and the value of
\* self when it returned or panicked.
WiringOption_add_alternative(self, alt_name, obj) ==
  IF WiringOption_has_alternative(self, alt_name)
  THEN [panicked |-> TRUE, self |-> self]
  ELSE IF self.kind = "Multi"
       THEN [panicked |-> FALSE,
             self |-> Multi(self.wired,
                            Append(self.alternatives, <<alt_name, obj>>))]
       ELSE [panicked |-> TRUE, self |-> self]

\* Mutant of wire_alternative: an option that is wired keeps its wiring.
WiringOption_wire_alternative_keep(self, alt_name) ==
  IF ~WiringOption_has_alternative(self, alt_name)
  THEN [panicked |-> TRUE, self |-> self]
  ELSE [panicked |-> FALSE,
        self |-> Multi(IF self.wired # None THEN self.wired
                       ELSE Some(position(self.alternatives, alt_name)[1]),
                       self.alternatives)]

WiringOption_wire_alternative(self, alt_name) ==
  IF ~WiringOption_has_alternative(self, alt_name)
  THEN [panicked |-> TRUE, self |-> self]
  ELSE [panicked |-> FALSE,
        self |-> Multi(Some(position(self.alternatives, alt_name)[1]),
                       self.alternatives)]

\* Mutant of object: an unwired Multi falls back to its first alternative.
WiringOption_object_first(self) ==
  IF self.kind = "Single" THEN Some(self.obj)
  ELSE IF self.wired # None
       THEN Some(self.alternatives[self.wired[1] + 1][2])
       ELSE IF Len(self.alternatives) >= 1
            THEN Some(self.alternatives[1][2])
            ELSE None

WiringOption_object(self) ==
  IF self.kind = "Single" THEN Some(self.obj)
  ELSE IF self.wired # None
       THEN Some(self.alternatives[self.wired[1] + 1][2])
       ELSE None

\* Mutant of object_mut: a wired Multi yields its first alternative, not
\* the one at the wired index.
WiringOption_object_mut_head(self) ==
  IF self.kind = "Single" THEN Some(self.obj)
  ELSE IF self.wired # None
       THEN Some(self.alternatives[1][2])
       ELSE None

WiringOption_object_mut(self) ==
  IF self.kind = "Single" THEN Some(self.obj)
  ELSE IF self.wired # None
       THEN Some(self.alternatives[self.wired[1] + 1][2])
       ELSE None

\* ------------------------------------------------- BTreeMap<String, _>
\* The map is the sequence of its entries [key, value] in ascending key
\* order, which is the order btree_map::Iter walks them in.
Keys(m) == { m[i].key : i \in 1..Len(m) }

contains_key(m, k) == \E i \in 1..Len(m) : m[i].key = k

\* BTreeMap::get / get_mut
map_get(m, k) ==
  IF contains_key(m, k)
  THEN Some((CHOOSE e \in { m[i] : i \in 1..Len(m) } : e.key = k).value)
  ELSE None

\* Mutant of the mutable lookup: an absent key is given an empty Multi
\* option, as a lookup through the entry API would.
options_get_mut_entry(m, k) ==
  IF contains_key(m, k) THEN m
  ELSE LET below == Cardinality({ i \in 1..Len(m) : str_lt(m[i].key, k) })
       IN  SubSeq(m, 1, below)
             \o <<[key |-> k,
                   value |-> [kind |-> "Multi", wired |-> <<>>,
                              alternatives |-> <<>>]]>>
             \o SubSeq(m, below + 1, Len(m))

\* self.options.get_mut(opt_name) of the &mut self accessors: the map after
\* the lookup, which adds, removes and replaces no entry.
options_get_mut(m, k) == m

\* BTreeMap::insert: replaces the value of an existing key, otherwise puts
\* the entry at its place in key order.
map_insert(m, k, v) ==
  IF contains_key(m, k)
  THEN [i \in 1..Len(m) |-> IF m[i].key = k THEN [key |-> k, value |-> v]
                            ELSE m[i]]
  ELSE LET below == Cardinality({ i \in 1..Len(m) : str_lt(m[i].key, k) })
       IN  SubSeq(m, 1, below) \o <<[key |-> k, value |-> v]>>
             \o SubSeq(m, below + 1, Len(m))

\* ---------------------------------------------------------------- ObjectMap
ObjectMap_get_object(self, opt_name) ==
  LET option == map_get(self, opt_name)
  IN  IF option = None THEN None ELSE WiringOption_object(option[1])

ObjectMap_get_object_mut(self, opt_name) ==
  LET option == map_get(self, opt_name)
  IN  IF option = None THEN None ELSE WiringOption_object_mut(option[1])

ObjectMap_get(self, T) ==
  LET base == ObjectMap_get_object(self, option_name(T))
  IN  IF base # None
      THEN LET ty == get_type_id(base[1])
               cast == downcast_ref(T, base[1])
           IN  IF cast # None THEN Ok(cast[1]) ELSE type_mismatch(T, ty)
      ELSE MissingOption(option_name(T))

ObjectMap_get_mut(self, T) ==
  LET base == ObjectMap_get_object_mut(self, option_name(T))
  IN  IF base # None
      THEN LET ty == get_type_id(base[1])
               cast == downcast_mut(T, base[1])
           IN  IF cast # None THEN Ok(cast[1]) ELSE type_mismatch(T, ty)
      ELSE MissingOption(option_name(T))

\* Iter{ options: self.options.iter() }: the entries still to be visited.
ObjectMap_iter(self) == self

ObjectMap_iter_mut(self) == self

\* Mutant of Iter::next: an entry that resolves to no object ends the
\* iteration instead of being skipped.
Iter_next_stop(it) ==
  IF it = <<>> THEN [item |-> None, it |-> it]
  ELSE LET obj == WiringOption_object(Head(it).value)
       IN  IF obj # None
           THEN [item |-> Some(<<Head(it).key, obj[1]>>), it |-> Tail(it)]
           ELSE [item |-> None, it |-> Tail(it)]

\* Iter::next: the item yielded (None at the end) and the iterator after
\* the call; an entry that resolves to no object is skipped by the
\* recursive call.
RECURSIVE Iter_next(_)
Iter_next(it) ==
  IF it = <<>> THEN [item |-> None, it |-> it]
  ELSE LET obj == WiringOption_object(Head(it).value)
       IN  IF obj # None
           THEN [item |-> Some(<<Head(it).key, obj[1]>>), it |-> Tail(it)]
           ELSE Iter_next(Tail(it))

RECURSIVE IterMut_next(_)
IterMut_next(it) ==
  IF it = <<>> THEN [item |-> None, it |-> it]
  ELSE LET obj == WiringOption_object_mut(Head(it).value)
       IN  IF obj # None
           THEN [item |-> Some(<<Head(it).key, obj[1]>>), it |-> Tail(it)]
           ELSE IterMut_next(Tail(it))

\* A for loop over the iterator: next() until it yields None.
RECURSIVE Iter_collect(_)
Iter_collect(it) ==
  LET r == Iter_next(it)
  IN  IF r.item = None THEN <<>> ELSE <<r.item[1]>> \o Iter_collect(r.it)

RECURSIVE IterMut_collect(_)
IterMut_collect(it) ==
  LET r == IterMut_next(it)
  IN  IF r.item = None THEN <<>> ELSE <<r.item[1]>> \o IterMut_collect(r.it)

\* Mutant of index: the Option of the raw accessor is handed on without the
\* unwrap, so an absent object is no failure.
ObjectMap_index_no_unwrap(self, name) ==
  LET r == ObjectMap_get_object(self, name)
  IN  [panicked |-> FALSE, value |-> r]

\* Index::index / IndexMut::index_mut: unwrap() of the raw accessor, which
\* panics on None and yields the object of Some; a panicked call has no
\* value (None stands for that).
ObjectMap_index(self, name) ==
  LET r == ObjectMap_get_object(self, name)
  IN  IF r = None THEN [panicked |-> TRUE, value |-> None]
      ELSE [panicked |-> FALSE, value |-> r[1]]

ObjectMap_index_mut(self, name) ==
  LET r == ObjectMap_get_object_mut(self, name)
  IN  IF r = None THEN [panicked |-> TRUE, value |-> None]
      ELSE [panicked |-> FALSE, value |-> r[1]]

\* ----------------------------------------------------------------- Register
\* Each Register method yields whether it panicked and the options map as
\* it is when the method returns or panics.
Register_new == <<>>

\* Mutant of add_option: the empty option is inserted before the name is
\* checked, so the failing call has already replaced the option.
Register_add_option_insert_first(self, name) ==
  [panicked |-> contains_key(self, name),
   options |-> map_insert(self, name, Multi(None, <<>>))]

Register_add_option(self, name) ==
  IF contains_key(self, name)
  THEN [panicked |-> TRUE, options |-> self]
  ELSE [panicked |-> FALSE,
        options |-> map_insert(self, name, Multi(None, <<>>))]

\* Mutant of add_alternative: an absent option is created on the fly.
Register_add_alternative_create(self, opt_name, alt_name, obj) ==
  LET option == map_get(self, opt_name)
  IN  IF option = None
      THEN [panicked |-> FALSE,
            options |-> map_insert(self, opt_name,
                                   Multi(None, <<<<alt_name, obj>>>>))]
      ELSE LET r == WiringOption_add_alternative(option[1], alt_name, obj)
           IN  [panicked |-> r.panicked,
                options |-> map_insert(self, opt_name, r.self)]

Register_add_alternative(self, opt_name, alt_name, obj) ==
  LET option == map_get(self, opt_name)
  IN  IF option = None
      THEN [panicked |-> TRUE, options |-> self]
      ELSE LET r == WiringOption_add_alternative(option[1], alt_name, obj)
           IN  [panicked |-> r.panicked,
                options |-> map_insert(self, opt_name, r.self)]

\* Mutant of wire_alternative: every option that has an alternative of the
\* name is wired to it, not only the option named.
Register_wire_alternative_all(self, opt_name, alt_name) ==
  LET option == map_get(self, opt_name)
  IN  IF option = None
      THEN [panicked |-> TRUE, options |-> self]
      ELSE LET r == WiringOption_wire_alternative(option[1], alt_name)
           IN  [panicked |-> r.panicked,
                options |->
                  IF r.panicked THEN self
                  ELSE [i \in 1..Len(self) |->
                          IF WiringOption_has_alternative(self[i].value,
                                                          alt_name)
                          THEN [key |-> self[i].key,
                                value |-> WiringOption_wire_alternative(
                                            self[i].value, alt_name).self]
                          ELSE self[i]]]

Register_wire_alternative(self, opt_name, alt_name) ==
  LET option == map_get(self, opt_name)
  IN  IF option = None
      THEN [panicked |-> TRUE, options |-> self]
      ELSE LET r == WiringOption_wire_alternative(option[1], alt_name)
           IN  [panicked |-> r.panicked,
                options |-> map_insert(self, opt_name, r.self)]

\* Mutant of add_single: the option it puts in place is an empty Multi.
Register_add_single_empty(self, name, obj) ==
  IF ~contains_key(self, name)
  THEN [panicked |-> TRUE, options |-> self]
  ELSE [panicked |-> FALSE,
        options |-> map_insert(self, name, Multi(None, <<>>))]

\* The assertion of add_single is written without a negation: it passes
\* when the name IS a key of the map.
Register_add_single(self, name, obj) ==
  IF ~contains_key(self, name)
  THEN [panicked |-> TRUE, options |-> self]
  ELSE [panicked |-> FALSE, options |-> map_insert(self, name, Single(obj))]

\* ------------------------------------------------------------------ actions
\* A Box<Obj> is moved into the register, so an object that the register
\* owns cannot be handed to it again.
Owned(m) ==
  UNION { IF m[i].value.kind = "Single" THEN { m[i].value.obj }
          ELSE { m[i].value.alternatives[j][2] :
                   j \in 1..Len(m[i].value.alternatives) } :
          i \in 1..Len(m) }

\* The caller chooses the concrete type of the object it boxes; which of
\* the unowned objects of that type the allocation yields makes no
\* difference, so the one of least id stands for them all.
Fresh ==
  { x \in Objs \ Owned(options) :
      \A y \in Objs \ Owned(options) : y.ty = x.ty => x.id <= y.id }

Outcome(panicked) == IF panicked THEN "panic" ELSE "ok"

Call(op, opt_name, alt_name, obj, T) ==
  [op |-> op, opt_name |-> opt_name, alt_name |-> alt_name, obj |-> obj,
   T |-> T]

Init ==
  /\ options = Register_new
  /\ call = Call("new", NoArg, NoArg, NoObj, NoType)
  /\ outcome = "ok"
  /\ ret = None

add_option ==
  \E name \in OptNames :
    LET r == Register_add_option(options, name)
    IN  /\ options' = r.options
        /\ call' = Call("add_option", name, NoArg, NoObj, NoType)
        /\ outcome' = Outcome(r.panicked)
        /\ ret' = None

add_alternative ==
  \E opt_name \in OptNames, alt_name \in AltNames, obj \in Fresh :
    LET r == Register_add_alternative(options, opt_name, alt_name, obj)
    IN  /\ options' = r.options
        /\ call' = Call("add_alternative", opt_name, alt_name, obj, NoType)
        /\ outcome' = Outcome(r.panicked)
        /\ ret' = None

wire_alternative ==
  \E opt_name \in OptNames, alt_name \in AltNames :
    LET r == Register_wire_alternative(options, opt_name, alt_name)
    IN  /\ options' = r.options
        /\ call' = Call("wire_alternative", opt_name, alt_name, NoObj, NoType)
        /\ outcome' = Outcome(r.panicked)
        /\ ret' = None

add_single ==
  \E name \in OptNames, obj \in Fresh :
    LET r == Register_add_single(options, name, obj)
    IN  /\ options' = r.options
        /\ call' = Call("add_single", name, NoArg, obj, NoType)
        /\ outcome' = Outcome(r.panicked)
        /\ ret' = None

get_object ==
  \E opt_name \in OptNames :
    /\ call' = Call("get_object", opt_name, NoArg, NoObj, NoType)
    /\ outcome' = "ok"
    /\ ret' = ObjectMap_get_object(options, opt_name)
    /\ UNCHANGED options

get_object_mut ==
  \E opt_name \in OptNames :
    /\ call' = Call("get_object_mut", opt_name, NoArg, NoObj, NoType)
    /\ outcome' = "ok"
    /\ ret' = ObjectMap_get_object_mut(options, opt_name)
    /\ options' = options_get_mut(options, opt_name)

get ==
  \E T \in Types :
    /\ call' = Call("get", NoArg, NoArg, NoObj, T)
    /\ outcome' = "ok"
    /\ ret' = ObjectMap_get(options, T)
    /\ UNCHANGED options

get_mut ==
  \E T \in Types :
    /\ call' = Call("get_mut", NoArg, NoArg, NoObj, T)
    /\ outcome' = "ok"
    /\ ret' = ObjectMap_get_mut(options, T)
    /\ options' = options_get_mut(options, option_name(T))

iter ==
  /\ call' = Call("iter", NoArg, NoArg, NoObj, NoType)
  /\ outcome' = "ok"
  /\ ret' = Iter_collect(ObjectMap_iter(options))
  /\ UNCHANGED options

iter_mut ==
  /\ call' = Call("iter_mut", NoArg, NoArg, NoObj, NoType)
  /\ outcome' = "ok"
  /\ ret' = IterMut_collect(ObjectMap_iter_mut(options))
  /\ UNCHANGED options

index ==
  \E name \in OptNames :
    LET r == ObjectMap_index(options, name)
    IN  /\ call' = Call("index", name, NoArg, NoObj, NoType)
        /\ outcome' = Outcome(r.panicked)
        /\ ret' = r.value
        /\ UNCHANGED options

index_mut ==
  \E name \in OptNames :
    LET r == ObjectMap_index_mut(options, name)
    IN  /\ call' = Call("index_mut", name, NoArg, NoObj, NoType)
        /\ outcome' = Outcome(r.panicked)
        /\ ret' = r.value
        /\ options' = options_get_mut(options, name)

Next ==
  \/ add_option
  \/ add_alternative
  \/ wire_alternative
  \/ add_single
  \/ get_object
  \/ get_object_mut
  \/ get
  \/ get_mut
  \/ iter
  \/ iter_mut
  \/ index
  \/ index_mut

Spec == Init /\ [][Next]_vars

\* The setup phase alone: the Register methods.
NextRegister ==
  \/ add_option
  \/ add_alternative
  \/ wire_alternative
  \/ add_single

SpecRegister == Init /\ [][NextRegister]_vars

\* Setup interleaved with the typed accessors.
NextTyped ==
  \/ NextRegister
  \/ get
  \/ get_mut

SpecTyped == Init /\ [][NextTyped]_vars

\* Setup interleaved with iteration.
NextIter ==
  \/ NextRegister
  \/ iter
  \/ iter_mut

SpecIter == Init /\ [][NextIter]_vars

\* Setup interleaved with the raw accessors and the indexing operators.
NextRaw ==
  \/ NextRegister
  \/ get_object
  \/ get_object_mut
  \/ index
  \/ index_mut

SpecRaw == Init /\ [][NextRaw]_vars

\* ------------------------------------------------- vocabulary of the claims
\* The entry of option name n in map m, as a set (empty when n is absent).
OptionOf(m, n) == { m[i].value : i \in { j \in 1..Len(m) : m[j].key = n } }

IsMulti(o) == o.kind = "Multi"

IsSingle(o) == o.kind = "Single"

AltNamesOf(o) == { o.alternatives[i][1] : i \in 1..Len(o.alternatives) }

\* The objects option name n resolves to in map m: the object of a Single
\* option, the object of the wired alternative of a Multi option.
Resolved(m, n) ==
  { x \in Objs :
      \E o \in OptionOf(m, n) :
         \/ IsSingle(o) /\ o.obj = x
         \/ /\ IsMulti(o)
            /\ Len(o.wired) = 1
            /\ o.wired[1] + 1 \in 1..Len(o.alternatives)
            /\ o.alternatives[o.wired[1] + 1][2] = x }

Unwired(o) == IsMulti(o) /\ Len(o.wired) = 0

\* ----------------------------------------------------------------------- C1
\* C1: add_single(name, obj) with a name that is not yet an option succeeds
\* and creates an implicitly wired Single option: right afterwards
\* get_object(name) yields obj and get<T> is Ok for a type T that reflects
\* name and is the concrete type of obj.
C1_AddSingleFreshName ==
  [][ (call'.op = "add_single" /\ OptionOf(options, call'.opt_name) = {})
        => /\ outcome' = "ok"
           /\ OptionOf(options', call'.opt_name) = { Single(call'.obj) }
           /\ ObjectMap_get_object(options', call'.opt_name) = Some(call'.obj)
           /\ \A T \in Types :
                (option_name(T) = call'.opt_name /\ call'.obj.ty = T)
                  => ObjectMap_get(options', T) = Ok(call'.obj) ]_vars

\* ----------------------------------------------------------------------- C2
\* C2: add_option(name) and add_single(name, obj) with a name that is already
\* an option are fatal, and option names stay unique.
C2_DuplicateOptionNameFatal ==
  [][ /\ ((call'.op \in {"add_option", "add_single"}
            /\ OptionOf(options, call'.opt_name) # {})
           => outcome' = "panic")
      /\ Cardinality(Keys(options')) = Len(options') ]_vars

\* ----------------------------------------------------------------------- C3
\* C3: no Register operation changes the kind of an existing option, removes
\* an option or removes an alternative: names and alternative lists only grow.
C3_KindFixedNothingRemoved ==
  [][ \A i \in 1..Len(options) :
        \E o \in OptionOf(options', options[i].key) :
           /\ o.kind = options[i].value.kind
           /\ IsMulti(o) =>
                /\ Len(o.alternatives) >= Len(options[i].value.alternatives)
                /\ SubSeq(o.alternatives, 1,
                          Len(options[i].value.alternatives))
                     = options[i].value.alternatives ]_vars

\* ----------------------------------------------------------------------- C4
\* C4: get<T> returns MissingOption, carrying T's reflected name, exactly
\* when no option has that name or the option is an unwired Multi.
C4_MissingOptionExactly ==
  call.op = "get" =>
    LET n == option_name(call.T)
    IN  /\ (ret.tag = "MissingOption")
             <=> (OptionOf(options, n) = {}
                  \/ \E o \in OptionOf(options, n) : Unwired(o))
        /\ ret.tag = "MissingOption" => ret.option_name = n

\* get<T> found the option of T's name, a Multi with alternatives but no
\* wiring, and answered MissingOption.
C4_Witness ==
  /\ call.op = "get"
  /\ ret.tag = "MissingOption"
  /\ \E o \in OptionOf(options, option_name(call.T)) :
        Unwired(o) /\ Len(o.alternatives) >= 1

\* ----------------------------------------------------------------------- C5
\* C5: get<T> returns TypeMismatch exactly when the option of T's name
\* resolves to an object of another concrete type, with option_name = T's
\* name, expected = T and found = the object's type; when the object's type
\* is T it returns Ok with that object.
C5_TypeMismatchExactly ==
  call.op = "get" =>
    LET n == option_name(call.T)
    IN  /\ (ret.tag = "TypeMismatch")
             <=> (\E x \in Resolved(options, n) : x.ty # call.T)
        /\ \A x \in Resolved(options, n) :
             /\ x.ty # call.T =>
                  /\ ret.tag = "TypeMismatch"
                  /\ ret.option_name = n
                  /\ ret.expected = call.T
                  /\ ret.found = x.ty
             /\ x.ty = call.T => (ret.tag = "Ok" /\ ret.value = x)

\* get<T> met a wired Multi option whose wired object has another type.
C5_Witness ==
  /\ call.op = "get"
  /\ ret.tag = "TypeMismatch"
  /\ ret.expected # ret.found
  /\ \E o \in OptionOf(options, option_name(call.T)) :
        IsMulti(o) /\ Len(o.alternatives) = 2 /\ o.wired = Some(1)

\* ----------------------------------------------------------------------- C6
\* C6: wire_alternative(opt, alt) on a Multi option that has alt succeeds
\* and sets wired to alt's index whatever the wiring was, wiring it again
\* changes nothing, and it is fatal when the option lacks alt or is Single.
C6_WireAlternative ==
  [][ call'.op = "wire_alternative" =>
        \A o \in OptionOf(options, call'.opt_name) :
          /\ (IsMulti(o) /\ call'.alt_name \in AltNamesOf(o)) =>
               /\ outcome' = "ok"
               /\ \E w \in OptionOf(options', call'.opt_name) :
                    /\ IsMulti(w)
                    /\ Len(w.wired) = 1
                    /\ w.wired[1] \in 0..(Len(o.alternatives) - 1)
                    /\ o.alternatives[w.wired[1] + 1][1] = call'.alt_name
               /\ Register_wire_alternative(options', call'.opt_name,
                                            call'.alt_name)
                    = [panicked |-> FALSE, options |-> options']
          /\ (IsSingle(o) \/ call'.alt_name \notin AltNamesOf(o)) =>
               outcome' = "panic" ]_vars

\* wire_alternative succeeded on the second of two alternatives.
C6_Witness ==
  /\ call.op = "wire_alternative"
  /\ outcome = "ok"
  /\ \E o \in OptionOf(options, call.opt_name) :
        /\ Len(o.alternatives) = 2
        /\ o.wired = Some(1)
        /\ o.alternatives[2][1] = call.alt_name

\* ----------------------------------------------------------------------- C7
\* C7: add_alternative(opt, alt, obj) is fatal when opt already has alt and
\* when opt is Single; otherwise it appends (alt, obj) at the end, keeps the
\* earlier alternatives in order and leaves wired alone.
C7_AddAlternative ==
  [][ call'.op = "add_alternative" =>
        \A o \in OptionOf(options, call'.opt_name) :
          /\ (IsSingle(o) \/ call'.alt_name \in AltNamesOf(o)) =>
               outcome' = "panic"
          /\ (IsMulti(o) /\ call'.alt_name \notin AltNamesOf(o)) =>
               /\ outcome' = "ok"
               /\ \E w \in OptionOf(options', call'.opt_name) :
                    /\ IsMulti(w)
                    /\ Len(w.alternatives) = Len(o.alternatives) + 1
                    /\ w.alternatives[Len(w.alternatives)]
                         = <<call'.alt_name, call'.obj>>
                    /\ \A i \in 1..Len(o.alternatives) :
                         w.alternatives[i] = o.alternatives[i]
                    /\ w.wired = o.wired ]_vars

\* add_alternative appended a second alternative to a wired Multi option.
C7_Witness ==
  /\ call.op = "add_alternative"
  /\ outcome = "ok"
  /\ \E o \in OptionOf(options, call.opt_name) :
        /\ Len(o.alternatives) = 2
        /\ o.alternatives[2] = <<call.alt_name, call.obj>>
        /\ o.wired = Some(0)

\* ----------------------------------------------------------------------- C8
\* C8: in every reachable state the alternative names of each Multi option
\* are pairwise distinct.
C8_AlternativeNamesUnique ==
  \A i \in 1..Len(options) :
    IsMulti(options[i].value) =>
      \A j, k \in 1..Len(options[i].value.alternatives) :
        j # k => options[i].value.alternatives[j][1]
                   # options[i].value.alternatives[k][1]

\* add_alternative was refused on the name of the alternative the option is
\* wired to, in a registry of two options.
C8_Witness ==
  /\ call.op = "add_alternative"
  /\ outcome = "panic"
  /\ Len(options) = 2
  /\ \E o \in OptionOf(options, call.opt_name) :
        /\ IsMulti(o)
        /\ Len(o.alternatives) = 1
        /\ call.alt_name \in AltNamesOf(o)
        /\ o.wired = Some(0)

\* ----------------------------------------------------------------------- C9
\* C9: in every reachable state a wired index of a Multi option is a valid
\* index of its alternative list, so an empty Multi option is never wired.
C9_WiredIndexValid ==
  \A i \in 1..Len(options) :
    (IsMulti(options[i].value) /\ options[i].value.wired # None) =>
      /\ options[i].value.wired[1] >= 0
      /\ options[i].value.wired[1] < Len(options[i].value.alternatives)

\* wire_alternative has just wired the last of two alternatives.
C9_Witness ==
  /\ call.op = "wire_alternative"
  /\ outcome = "ok"
  /\ \E o \in OptionOf(options, call.opt_name) :
        /\ Len(o.alternatives) = 2
        /\ o.wired = Some(Len(o.alternatives) - 1)
        /\ Len(options) = 2

\* ---------------------------------------------------------------------- C10
\* C10: iteration yields exactly one (name, object) pair per option that
\* resolves to an object, with the resolved object, nothing for unwired
\* Multi options, in ascending lexicographic order of option name.
C10_IterationExactAndOrdered ==
  call.op \in {"iter", "iter_mut"} =>
    /\ \A i, j \in 1..Len(ret) : i < j => str_lt(ret[i][1], ret[j][1])
    /\ { ret[i][1] : i \in 1..Len(ret) }
         = { n \in Keys(options) : Resolved(options, n) # {} }
    /\ \A i \in 1..Len(ret) : Resolved(options, ret[i][1]) = { ret[i][2] }

\* iter skipped an unwired Multi option that comes first in name order and
\* yielded the option after it.
C10_Witness ==
  /\ call.op = "iter"
  /\ Len(options) = 2
  /\ Unwired(options[1].value)
  /\ Len(ret) = 1
  /\ ret[1][1] = options[2].key

\* ---------------------------------------------------------------------- C11
\* The scenario's names: "log" is the first option name, "console" and
\* "file" the first two alternative names, ConsoleLogger and FileLogger the
\* concrete types of the objects 1 and 2 (both types reflect "log").
Log == OptName(1)

Console == AltName(1)

File == AltName(2)

ConsoleLogger == get_type_id(Obj(1))

FileLogger == get_type_id(Obj(2))

\* The registry after add_option("log") and the two add_alternative calls,
\* with the given wiring.
LogRegistry(wired) ==
  <<[key |-> Log,
     value |-> [kind |-> "Multi", wired |-> wired,
                alternatives |-> <<<<Console, Obj(1)>>,
                                   <<File, Obj(2)>>>>]]>>

\* C11: from the empty register, add_option("log"), add_alternative("log",
\* "console", ConsoleLogger) and add_alternative("log", "file", FileLogger)
\* lead to a registry where get<ConsoleLogger> is MissingOption; the further
\* wire_alternative("log", "console") leads to one where get<ConsoleLogger>
\* is Ok with the ConsoleLogger object and get<FileLogger> is TypeMismatch.
C11_LogScenario ==
  [][ /\ (options = <<>> /\ call'.op = "add_option" /\ call'.opt_name = Log)
           => /\ outcome' = "ok"
              /\ options' = <<[key |-> Log,
                               value |-> [kind |-> "Multi", wired |-> <<>>,
                                          alternatives |-> <<>>]]>>
      /\ (/\ options = <<[key |-> Log,
                          value |-> [kind |-> "Multi", wired |-> <<>>,
                                     alternatives |-> <<>>]]>>
          /\ call'.op = "add_alternative" /\ call'.opt_name = Log
          /\ call'.alt_name = Console /\ call'.obj = Obj(1))
           => /\ outcome' = "ok"
              /\ options' = <<[key |-> Log,
                               value |-> [kind |-> "Multi", wired |-> <<>>,
                                          alternatives |->
                                            <<<<Console,
                                                Obj(1)>>>>]]>>
      /\ (/\ options = <<[key |-> Log,
                          value |-> [kind |-> "Multi", wired |-> <<>>,
                                     alternatives |->
                                       <<<<Console, Obj(1)>>>>]]>>
          /\ call'.op = "add_alternative" /\ call'.opt_name = Log
          /\ call'.alt_name = File /\ call'.obj = Obj(2))
           => (outcome' = "ok" /\ options' = LogRegistry(<<>>))
      /\ (/\ options = LogRegistry(<<>>)
          /\ call'.op = "get" /\ call'.T = ConsoleLogger)
           => ret'.tag = "MissingOption"
      /\ (/\ options = LogRegistry(<<>>)
          /\ call'.op = "wire_alternative" /\ call'.opt_name = Log
          /\ call'.alt_name = Console)
           => (outcome' = "ok" /\ options' = LogRegistry(<<0>>))
      /\ (/\ options = LogRegistry(<<0>>)
          /\ call'.op = "get" /\ call'.T = ConsoleLogger)
           => (ret'.tag = "Ok" /\ ret'.value = Obj(1))
      /\ (/\ options = LogRegistry(<<0>>)
          /\ call'.op = "get" /\ call'.T = FileLogger)
           => /\ ret'.tag = "TypeMismatch"
              /\ ret'.expected = FileLogger
              /\ ret'.found = ConsoleLogger ]_vars

\* The end of the scenario: "log" is wired to "console" and get<FileLogger>
\* has answered TypeMismatch.
C11_Witness ==
  /\ options = LogRegistry(<<0>>)
  /\ call.op = "get"
  /\ call.T = FileLogger
  /\ ret.tag = "TypeMismatch"
  /\ option_name(ConsoleLogger) = Log
  /\ option_name(FileLogger) = Log

\* ---------------------------------------------------------------------- C12
\* C12: get_object(name) and get_object_mut(name) return None exactly when
\* name is absent or names an unwired Multi option; for a Single option they
\* return its object, for a wired Multi option the object of the alternative
\* at the wired index.
C12_RawAccessors ==
  call.op \in {"get_object", "get_object_mut"} =>
    /\ (ret = None)
         <=> (OptionOf(options, call.opt_name) = {}
              \/ \E o \in OptionOf(options, call.opt_name) : Unwired(o))
    /\ \A o \in OptionOf(options, call.opt_name) :
         /\ IsSingle(o) => ret = <<o.obj>>
         /\ (IsMulti(o) /\ Len(o.wired) = 1) =>
              ret = <<o.alternatives[o.wired[1] + 1][2]>>

\* get_object_mut returned the object of the second of two alternatives.
C12_Witness ==
  /\ call.op = "get_object_mut"
  /\ Len(ret) = 1
  /\ \E o \in OptionOf(options, call.opt_name) :
        /\ IsMulti(o)
        /\ Len(o.alternatives) = 2
        /\ o.wired = Some(1)
        /\ ret[1] = o.alternatives[2][2]
        /\ ret[1] # o.alternatives[1][2]

\* ---------------------------------------------------------------------- C13
\* C13: map[name], immutable and mutable, fails fatally exactly in the states
\* where get_object(name) is None (name absent or Multi unwired) and
\* otherwise returns the object get_object(name) returns.
C13_IndexingUnwraps ==
  call.op \in {"index", "index_mut"} =>
    /\ (outcome = "panic")
         <=> (ObjectMap_get_object(options, call.opt_name) = None)
    /\ (outcome = "panic")
         <=> (OptionOf(options, call.opt_name) = {}
              \/ \E o \in OptionOf(options, call.opt_name) : Unwired(o))
    /\ outcome = "ok" =>
         /\ <<ret>> = ObjectMap_get_object(options, call.opt_name)
         /\ Resolved(options, call.opt_name) = { ret }

\* Indexing an option that exists but is an unwired Multi with an
\* alternative failed fatally.
C13_Witness ==
  /\ call.op = "index"
  /\ outcome = "panic"
  /\ \E o \in OptionOf(options, call.opt_name) :
        Unwired(o) /\ Len(o.alternatives) >= 1

\* ---------------------------------------------------------------------- C14
\* C14: add_alternative(opt, alt, obj) and wire_alternative(opt, alt) are
\* fatal whenever opt is not an option of the registry, for every alt.
C14_AbsentOptionFatal ==
  [][ (/\ call'.op \in {"add_alternative", "wire_alternative"}
       /\ OptionOf(options, call'.opt_name) = {})
        => outcome' = "panic" ]_vars

\* add_alternative failed on an absent option while another option of the
\* registry exists.
C14_Witness ==
  /\ call.op = "add_alternative"
  /\ outcome = "panic"
  /\ OptionOf(options, call.opt_name) = {}
  /\ Len(options) = 1

\* ---------------------------------------------------------------------- C15
\* C15: a successful wire_alternative(opt, alt) changes nothing but the wired
\* index of opt: the option names, every option's kind and alternative list
\* and the wired index of every other option stay as they are.
C15_WireFrame ==
  [][ (call'.op = "wire_alternative" /\ outcome' = "ok") =>
        /\ Len(options') = Len(options)
        /\ \A i \in 1..Len(options) :
             /\ options'[i].key = options[i].key
             /\ options'[i].value.kind = options[i].value.kind
             /\ IsMulti(options[i].value) =>
                  options'[i].value.alternatives
                    = options[i].value.alternatives
             /\ options[i].key # call'.opt_name =>
                  options'[i].value = options[i].value ]_vars

\* wire_alternative succeeded on one option while the other option, which
\* has an alternative of the same name, is still unwired.
C15_Witness ==
  /\ call.op = "wire_alternative"
  /\ outcome = "ok"
  /\ Len(options) = 2
  /\ \E i \in 1..2 :
        /\ options[i].key # call.opt_name
        /\ Unwired(options[i].value)
        /\ call.alt_name \in AltNamesOf(options[i].value)

\* ---------------------------------------------------------------------- C16
\* C16: the query operations of ObjectMap (get_object, get_object_mut, get,
\* get_mut, iter, iter_mut, indexing) leave the option names, the kinds, the
\* alternative lists and the wired indices as they are.
C16_QueriesKeepStructure ==
  [][ call'.op \in {"get_object", "get_object_mut", "get", "get_mut",
                    "iter", "iter_mut", "index", "index_mut"}
        => options' = options ]_vars

\* get_mut asked for a type whose option does not exist in a registry that
\* has another option, and the registry still has that one option only.
C16_Witness ==
  /\ call.op = "get_mut"
  /\ ret.tag = "MissingOption"
  /\ OptionOf(options, option_name(call.T)) = {}
  /\ Len(options) = 1

\* ---------------------------------------------------------------------- C17
\* C17: after a successful wire_alternative(opt, a), get_object(opt) yields
\* the object that was added under the name a, and every later
\* add_alternative call, on opt or on another option, leaves what
\* get_object yields for a resolved option as it is.
C17_WiredObjectStable ==
  [][ /\ (call'.op = "wire_alternative" /\ outcome' = "ok") =>
           \E o \in OptionOf(options, call'.opt_name) :
             \E i \in 1..Len(o.alternatives) :
                /\ o.alternatives[i][1] = call'.alt_name
                /\ ObjectMap_get_object(options', call'.opt_name)
                     = <<o.alternatives[i][2]>>
      /\ call'.op = "add_alternative" =>
           \A n \in OptNames :
             ObjectMap_get_object(options, n) # None =>
               ObjectMap_get_object(options', n)
                 = ObjectMap_get_object(options, n) ]_vars

\* An option wired to its first alternative took a second one and still
\* resolves to the first one's object.
C17_Witness ==
  /\ call.op = "add_alternative"
  /\ outcome = "ok"
  /\ \E o \in OptionOf(options, call.opt_name) :
        /\ Len(o.alternatives) = 2
        /\ ObjectMap_get_object(options, call.opt_name)
             = <<o.alternatives[1][2]>>
        /\ o.alternatives[1][2] # call.obj

\* ---------------------------------------------------------------------- C18
\* C18: a Register call that ends in a fatal contract violation has changed
\* nothing: the registry at the failure is the registry before the call.
C18_FailedCallChangesNothing ==
  [][ (/\ call'.op \in {"add_option", "add_alternative", "wire_alternative",
                        "add_single"}
       /\ outcome' = "panic")
        => options' = options ]_vars

\* add_option failed on the name of an option that has an alternative and
\* is wired.
C18_Witness ==
  /\ call.op = "add_option"
  /\ outcome = "panic"
  /\ \E o \in OptionOf(options, call.opt_name) :
        IsMulti(o) /\ Len(o.alternatives) >= 1 /\ o.wired = Some(0)

\* ---------------------------------------------------------------------- C19
\* C19: resolution is monotone: an option name for which get_object returns
\* an object still has one after every Register operation.
C19_ResolutionMonotone ==
  [][ \A n \in OptNames :
        ObjectMap_get_object(options, n) # None
          => ObjectMap_get_object(options', n) # None ]_vars

\* add_single replaced an option, which resolves to the new object.
C19_Witness ==
  /\ call.op = "add_single"
  /\ outcome = "ok"
  /\ ObjectMap_get_object(options, call.opt_name) = <<call.obj>>
  /\ Len(options) = 2

====
